---- MODULE Spec2Model ----
(***************************************************************************)
(* Buffer pool manager (src/buffer/buffer_pool_manager.cpp) together with  *)
(* its clock replacer (src/buffer/clock_replacer.cpp).                     *)
(*                                                                         *)
(* One action per public operation of BufferPoolManager; the replacer's    *)
(* operations are operators over the replacer's state so that each manager *)
(* action contains every replacer call the code makes.                     *)
(***************************************************************************)
EXTENDS Integers, Sequences, FiniteSets, TLC

\* ---------------------------------------------------------------- bounds
PoolSize == 2        \* pool_size handed to the constructor
MaxPageId == 3       \* page ids the allocator may issue: 0 .. MaxPageId - 1
MaxHandles == 2      \* outstanding handles a caller keeps on one page
MaxUnderflow == 1    \* how far below zero unmatched unpins may drive a pin count
RingSize == 3        \* num_pages of a ClockReplacer exercised on its own
MaxCalls == 10       \* calls a caller makes on one BufferPoolManager

\* ------------------------------------------------------------- constants
INVALID_PAGE_ID == 0 - 1

PageIds == 0 .. (MaxPageId - 1)
Frames == 0 .. (PoolSize - 1)
NoFrame == 0 - 1

VARIABLES
  page_table_,   \* page id -> frame id (std::unordered_map)
  free_list_,    \* std::list<frame_id_t>, back() is the last element
  pages_,        \* frame id -> [page_id, pin_count, is_dirty]
  replacer_,     \* [rb, clock_hand, real_size] of the ClockReplacer
  next_page_id,  \* the disk manager's allocator
  fault,         \* the process has dereferenced an unset frame pointer
  ret,           \* the last call: operation, arguments and result
  io,            \* disk manager calls issued by the last call, in order
  handles,       \* page id -> handles handed out and not yet unpinned
  pre,           \* pool and replacer as they were before a FetchPage hit
  calls,         \* calls made on the BufferPoolManager so far
  threads        \* thread -> position and registers of a concurrent caller

vars == <<page_table_, free_list_, pages_, replacer_, next_page_id, fault,
          ret, io, handles, pre, calls, threads>>

Threads == {1, 2}
Idle == [t \in Threads |-> [pc |-> "idle", frame_id |-> NoFrame, tmp |-> 0]]
NoSnapshot == <<>>
Snapshot == <<page_table_, free_list_, pages_, replacer_>>

\* --------------------------------------------------------------- helpers
Erase(table, key) == [k \in (DOMAIN table) \ {key} |-> table[k]]

\* unordered_map::emplace keeps an existing entry
Emplace(table, key, value) ==
  IF key \in DOMAIN table THEN table
  ELSE [k \in (DOMAIN table) \cup {key} |-> IF k = key THEN value ELSE table[k]]

Back(list) == list[Len(list)]
PopBack(list) == SubSeq(list, 1, Len(list) - 1)

\* Page::ResetAll(page_id): new resident id, zeroed buffer, no pins, clean
ResetAll(page, page_id) ==
  [page_id |-> page_id, pin_count |-> 0, is_dirty |-> FALSE]

FrameStat == [is_in |-> FALSE, chances |-> 0]

\* -------------------------------------------------------- ClockReplacer
NewClockReplacer(num_pages) ==
  [num_pages |-> num_pages, rb |-> [f \in 0 .. (num_pages - 1) |-> FrameStat],
   clock_hand |-> 0, real_size |-> 0]

Size(r) == r.real_size

\* Victim loop that moves the hand past the slot it returns
RECURSIVE VictimLoop_AdvancesPastVictim(_, _)
VictimLoop_AdvancesPastVictim(r, iters) ==
  LET h == r.clock_hand IN
  IF r.rb[h].is_in /\ r.rb[h].chances = 0
  THEN [replacer |-> [r EXCEPT !.rb[h].is_in = FALSE, !.real_size = @ - 1,
                               !.clock_hand = (h + 1) % r.num_pages],
        has_victim |-> TRUE, frame_id |-> h, iters |-> iters + 1]
  ELSE LET dec == IF r.rb[h].is_in
                  THEN [r EXCEPT !.rb[h].chances = @ - 1]
                  ELSE r
       IN VictimLoop_AdvancesPastVictim(
            [dec EXCEPT !.clock_hand = (h + 1) % r.num_pages], iters + 1)

\* the while (true) loop of Victim; iters counts the slots examined
RECURSIVE VictimLoop(_, _)
VictimLoop(r, iters) ==
  LET h == r.clock_hand IN
  IF r.rb[h].is_in /\ r.rb[h].chances = 0
  THEN [replacer |-> [r EXCEPT !.rb[h].is_in = FALSE, !.real_size = @ - 1],
        has_victim |-> TRUE, frame_id |-> h, iters |-> iters + 1]
  ELSE LET dec == IF r.rb[h].is_in
                  THEN [r EXCEPT !.rb[h].chances = @ - 1]
                  ELSE r
       IN VictimLoop([dec EXCEPT !.clock_hand = (h + 1) % r.num_pages], iters + 1)

\* Victim that sweeps the hand once before reporting an empty replacer
Victim_SweepsWhenEmpty(r) ==
  IF Size(r) = 0
  THEN [replacer |-> [r EXCEPT !.clock_hand = (@ + 1) % r.num_pages],
        has_victim |-> FALSE, frame_id |-> NoFrame, iters |-> r.num_pages]
  ELSE VictimLoop(r, 0)

Victim(r) ==
  IF Size(r) = 0
  THEN [replacer |-> r, has_victim |-> FALSE, frame_id |-> NoFrame, iters |-> 0]
  ELSE VictimLoop(r, 0)

Pin(r, frame_id) ==
  IF r.rb[frame_id].is_in
  THEN [r EXCEPT !.rb[frame_id].is_in = FALSE, !.real_size = @ - 1]
  ELSE r

\* Unpin that grants two chances
Unpin_TwoChances(r, frame_id) ==
  IF ~r.rb[frame_id].is_in
  THEN [r EXCEPT !.rb[frame_id] = [is_in |-> TRUE, chances |-> 2],
                 !.real_size = @ + 1]
  ELSE r

\* Unpin that refreshes the chance of a slot already in the replacer
Unpin_Refreshes(r, frame_id) ==
  IF ~r.rb[frame_id].is_in
  THEN [r EXCEPT !.rb[frame_id] = [is_in |-> TRUE, chances |-> 1],
                 !.real_size = @ + 1]
  ELSE [r EXCEPT !.rb[frame_id].chances = 1]

Unpin(r, frame_id) ==
  IF ~r.rb[frame_id].is_in
  THEN [r EXCEPT !.rb[frame_id] = [is_in |-> TRUE, chances |-> 1],
                 !.real_size = @ + 1]
  ELSE r

\* ------------------------------------------------------------------ Init
Init ==
  /\ page_table_ = [k \in {} |-> 0]
  /\ free_list_ = [i \in 1 .. PoolSize |-> i - 1]
  /\ pages_ = [f \in Frames |->
                [page_id |-> INVALID_PAGE_ID, pin_count |-> 0, is_dirty |-> FALSE]]
  /\ replacer_ = NewClockReplacer(PoolSize)
  /\ next_page_id = 0
  /\ fault = FALSE
  /\ ret = [op |-> "Init", page_id |-> INVALID_PAGE_ID, is_dirty |-> FALSE,
            frame_id |-> NoFrame, ok |-> TRUE]
  /\ io = <<>>
  /\ handles = [p \in PageIds |-> 0]
  /\ pre = NoSnapshot
  /\ calls = 0
  /\ threads = Idle

Call(op, page_id, is_dirty, frame_id, ok) ==
  [op |-> op, page_id |-> page_id, is_dirty |-> is_dirty,
   frame_id |-> frame_id, ok |-> ok]

WriteIfDirty(page) ==
  IF page.is_dirty THEN << <<"WritePage", page.page_id>> >> ELSE <<>>

\* ------------------------------------------------------------- FetchPage
FetchPageImpl(page_id) ==
  /\ ~fault
  /\ handles[page_id] < MaxHandles
  /\ IF page_id \in DOMAIN page_table_
     THEN \* 1.1 resident: pin it
          LET frame_id == page_table_[page_id] IN
          /\ pages_' = [pages_ EXCEPT ![frame_id].pin_count = @ + 1]
          /\ replacer_' = Pin(replacer_, frame_id)
          /\ ret' = Call("FetchPage", page_id, FALSE, frame_id, TRUE)
          /\ io' = <<>>
          /\ handles' = [handles EXCEPT ![page_id] = @ + 1]
          /\ UNCHANGED <<page_table_, free_list_, next_page_id, fault>>
     ELSE IF Len(free_list_) # 0
     THEN \* frame taken from the free list; target_page is still nullptr
          \* when ResetAll is called through it
          /\ fault' = TRUE
          /\ free_list_' \in {free_list_, PopBack(free_list_)}
          /\ ret' = Call("FetchPage", page_id, FALSE, NoFrame, FALSE)
          /\ io' = <<>>
          /\ UNCHANGED <<page_table_, pages_, replacer_, next_page_id,
                         handles>>
     ELSE LET v == Victim(replacer_) IN
          IF ~v.has_victim
          THEN /\ ret' = Call("FetchPage", page_id, FALSE, NoFrame, FALSE)
               /\ io' = <<>>
               /\ replacer_' = v.replacer
               /\ UNCHANGED <<page_table_, free_list_, pages_, next_page_id,
                              fault, handles>>
          ELSE LET frame_id == v.frame_id
                   old == pages_[frame_id]
               IN
               /\ io' = WriteIfDirty(old) \o << <<"ReadPage", page_id>> >>
               /\ page_table_' =
                    Emplace(Erase(page_table_, old.page_id), page_id, frame_id)
               /\ pages_' = [pages_ EXCEPT ![frame_id] =
                               [ResetAll(old, page_id) EXCEPT !.pin_count = @ + 1]]
               /\ replacer_' = Pin(v.replacer, frame_id)
               /\ ret' = Call("FetchPage", page_id, FALSE, frame_id, TRUE)
               /\ handles' = [handles EXCEPT ![page_id] = @ + 1]
               /\ UNCHANGED <<free_list_, next_page_id, fault>>

\* ------------------------------------------------------------- UnpinPage
\* UnpinPage that decrements the pin count but does not tell the replacer
UnpinPageImpl_SkipsReplacer(page_id, is_dirty) ==
  /\ ~fault
  /\ IF page_id \notin DOMAIN page_table_
     THEN /\ ret' = Call("UnpinPage", page_id, is_dirty, NoFrame, FALSE)
          /\ UNCHANGED <<pages_, replacer_>>
     ELSE LET frame_id == page_table_[page_id] IN
          /\ pages_[frame_id].pin_count > 0 - MaxUnderflow
          /\ pages_' = [pages_ EXCEPT ![frame_id].pin_count = @ - 1]
          /\ ret' = Call("UnpinPage", page_id, is_dirty, frame_id, TRUE)
          /\ UNCHANGED replacer_
  /\ io' = <<>>
  /\ handles' = [handles EXCEPT ![page_id] = IF @ > 0 THEN @ - 1 ELSE 0]
  /\ UNCHANGED <<page_table_, free_list_, next_page_id, fault>>

UnpinPageImpl(page_id, is_dirty) ==
  /\ ~fault
  /\ IF page_id \notin DOMAIN page_table_
     THEN /\ ret' = Call("UnpinPage", page_id, is_dirty, NoFrame, FALSE)
          /\ UNCHANGED <<pages_, replacer_>>
     ELSE LET frame_id == page_table_[page_id] IN
          /\ pages_[frame_id].pin_count > 0 - MaxUnderflow
          /\ replacer_' = Unpin(replacer_, frame_id)
          /\ pages_' = [pages_ EXCEPT ![frame_id].pin_count = @ - 1]
          /\ ret' = Call("UnpinPage", page_id, is_dirty, frame_id, TRUE)
  /\ io' = <<>>
  /\ handles' = [handles EXCEPT ![page_id] = IF @ > 0 THEN @ - 1 ELSE 0]
  /\ UNCHANGED <<page_table_, free_list_, next_page_id, fault>>

\* ------------------------------------------------------------- FlushPage
\* FlushPage that writes only a frame whose dirty flag is set
FlushPageImpl_SkipsClean(page_id) ==
  /\ ~fault
  /\ IF page_id \notin DOMAIN page_table_
     THEN /\ ret' = Call("FlushPage", page_id, FALSE, NoFrame, FALSE)
          /\ io' = <<>>
          /\ UNCHANGED pages_
     ELSE LET frame_id == page_table_[page_id] IN
          /\ io' = WriteIfDirty(pages_[frame_id])
          /\ pages_' = [pages_ EXCEPT ![frame_id].is_dirty = FALSE]
          /\ ret' = Call("FlushPage", page_id, FALSE, frame_id, TRUE)
  /\ UNCHANGED <<page_table_, free_list_, replacer_, next_page_id, fault,
                 handles>>

FlushPageImpl(page_id) ==
  /\ ~fault
  /\ IF page_id \notin DOMAIN page_table_
     THEN /\ ret' = Call("FlushPage", page_id, FALSE, NoFrame, FALSE)
          /\ io' = <<>>
          /\ UNCHANGED <<pages_>>
     ELSE LET frame_id == page_table_[page_id] IN
          /\ io' = << <<"WritePage", page_id>> >>
          /\ pages_' = [pages_ EXCEPT ![frame_id].is_dirty = FALSE]
          /\ ret' = Call("FlushPage", page_id, FALSE, frame_id, TRUE)
  /\ UNCHANGED <<page_table_, free_list_, replacer_, next_page_id, fault,
                 handles>>

\* --------------------------------------------------------------- NewPage
NewPageImpl ==
  /\ ~fault
  /\ IF Len(free_list_) = 0 /\ Size(replacer_) = 0
     THEN /\ ret' = Call("NewPage", INVALID_PAGE_ID, FALSE, NoFrame, FALSE)
          /\ io' = <<>>
          /\ UNCHANGED <<page_table_, free_list_, pages_, replacer_,
                         next_page_id, fault, handles>>
     ELSE LET allocated_page_id == next_page_id IN
          /\ next_page_id < MaxPageId
          /\ next_page_id' = next_page_id + 1
          /\ IF Len(free_list_) # 0
             THEN LET new_frame_id == Back(free_list_) IN
                  /\ free_list_' = PopBack(free_list_)
                  /\ io' = << <<"AllocatePage", allocated_page_id>> >>
                  /\ pages_' = [pages_ EXCEPT ![new_frame_id] =
                                  ResetAll(@, allocated_page_id)]
                  /\ page_table_' =
                       Emplace(page_table_, allocated_page_id, new_frame_id)
                  /\ ret' = Call("NewPage", allocated_page_id, FALSE,
                                 new_frame_id, TRUE)
                  /\ handles' = [handles EXCEPT ![allocated_page_id] = @ + 1]
                  /\ UNCHANGED <<replacer_, fault>>
             ELSE LET v == Victim(replacer_) IN
                  IF ~v.has_victim
                  THEN /\ ret' = Call("NewPage", INVALID_PAGE_ID, FALSE,
                                      NoFrame, FALSE)
                       /\ io' = << <<"AllocatePage", allocated_page_id>> >>
                       /\ replacer_' = v.replacer
                       /\ UNCHANGED <<page_table_, free_list_, pages_, fault,
                                      handles>>
                  ELSE LET new_frame_id == v.frame_id
                           old == pages_[new_frame_id]
                       IN
                       /\ io' = << <<"AllocatePage", allocated_page_id>> >>
                                  \o WriteIfDirty(old)
                       /\ page_table_' =
                            Emplace(Erase(page_table_, old.page_id),
                                    allocated_page_id, new_frame_id)
                       /\ pages_' = [pages_ EXCEPT ![new_frame_id] =
                                       ResetAll(old, allocated_page_id)]
                       /\ replacer_' = v.replacer
                       /\ ret' = Call("NewPage", allocated_page_id, FALSE,
                                      new_frame_id, TRUE)
                       /\ handles' =
                            [handles EXCEPT ![allocated_page_id] = @ + 1]
                       /\ UNCHANGED <<free_list_, fault>>

\* ------------------------------------------------------------ DeletePage
\* DeletePage that returns the frame to the free list but keeps the
\* page table entry
DeletePageImpl_KeepsEntry(page_id) ==
  /\ ~fault
  /\ io' = <<>>
  /\ IF page_id \in DOMAIN page_table_
     THEN LET frame_id == page_table_[page_id] IN
          IF pages_[frame_id].pin_count # 0
          THEN /\ ret' = Call("DeletePage", page_id, FALSE, frame_id, FALSE)
               /\ UNCHANGED <<page_table_, free_list_, pages_>>
          ELSE /\ pages_' = [pages_ EXCEPT ![frame_id] =
                               ResetAll(@, INVALID_PAGE_ID)]
               /\ free_list_' = Append(free_list_, frame_id)
               /\ ret' = Call("DeletePage", page_id, FALSE, frame_id, TRUE)
               /\ UNCHANGED page_table_
     ELSE /\ ret' = Call("DeletePage", page_id, FALSE, NoFrame, TRUE)
          /\ UNCHANGED <<page_table_, free_list_, pages_>>
  /\ UNCHANGED <<replacer_, next_page_id, fault, handles>>

\* DeletePage that erases the page but never returns the frame to the free
\* list
DeletePageImpl_DropsFrame(page_id) ==
  /\ ~fault
  /\ io' = <<>>
  /\ IF page_id \in DOMAIN page_table_
     THEN LET frame_id == page_table_[page_id] IN
          IF pages_[frame_id].pin_count # 0
          THEN /\ ret' = Call("DeletePage", page_id, FALSE, frame_id, FALSE)
               /\ UNCHANGED <<page_table_, free_list_, pages_>>
          ELSE /\ pages_' = [pages_ EXCEPT ![frame_id] =
                               ResetAll(@, INVALID_PAGE_ID)]
               /\ page_table_' = Erase(page_table_, page_id)
               /\ ret' = Call("DeletePage", page_id, FALSE, frame_id, TRUE)
               /\ UNCHANGED free_list_
     ELSE /\ ret' = Call("DeletePage", page_id, FALSE, NoFrame, TRUE)
          /\ UNCHANGED <<page_table_, free_list_, pages_>>
  /\ UNCHANGED <<replacer_, next_page_id, fault, handles>>

DeletePageImpl(page_id) ==
  /\ ~fault
  /\ io' = <<>>
  /\ IF page_id \in DOMAIN page_table_
     THEN LET frame_id == page_table_[page_id] IN
          IF pages_[frame_id].pin_count # 0
          THEN /\ ret' = Call("DeletePage", page_id, FALSE, frame_id, FALSE)
               /\ UNCHANGED <<page_table_, free_list_, pages_>>
          ELSE /\ pages_' = [pages_ EXCEPT ![frame_id] =
                               ResetAll(@, INVALID_PAGE_ID)]
               /\ page_table_' = Erase(page_table_, page_id)
               /\ free_list_' = Append(free_list_, frame_id)
               /\ ret' = Call("DeletePage", page_id, FALSE, frame_id, TRUE)
     ELSE /\ ret' = Call("DeletePage", page_id, FALSE, NoFrame, TRUE)
          /\ UNCHANGED <<page_table_, free_list_, pages_>>
  /\ UNCHANGED <<replacer_, next_page_id, fault, handles>>

\* --------------------------------------------------------- FlushAllPages
\* one FlushPageImpl per page table entry, in the map's iteration order
RECURSIVE FlushOrders(_)
FlushOrders(keys) ==
  IF keys = {} THEN {<<>>}
  ELSE UNION {{<<k>> \o rest : rest \in FlushOrders(keys \ {k})} : k \in keys}

FlushAllPagesImpl ==
  /\ ~fault
  /\ \E order \in FlushOrders(DOMAIN page_table_) :
       io' = [i \in 1 .. Len(order) |-> <<"WritePage", order[i]>>]
  /\ pages_' = [f \in Frames |->
                  IF pages_[f].page_id \in DOMAIN page_table_
                     /\ page_table_[pages_[f].page_id] = f
                  THEN [pages_[f] EXCEPT !.is_dirty = FALSE]
                  ELSE pages_[f]]
  /\ ret' = Call("FlushAllPages", INVALID_PAGE_ID, FALSE, NoFrame, TRUE)
  /\ UNCHANGED <<page_table_, free_list_, replacer_, next_page_id, fault,
                 handles>>

\* ------------------------------------------------------- specifications
\* any caller; FetchPage is asked for pages that exist on disk, that is, for
\* page ids the allocator has issued
\* pre keeps the state before a FetchPage of a resident page, through the
\* UnpinPage of the same page that directly follows it
Counted == calls < MaxCalls /\ calls' = calls + 1 /\ UNCHANGED threads

Forget == pre' = NoSnapshot /\ Counted

ClosesRoundTrip(page_id) ==
  ret.op = "FetchPage" /\ ret.ok /\ ret.page_id = page_id /\ pre # NoSnapshot

Remember(page_id) ==
  /\ pre' = IF ClosesRoundTrip(page_id) THEN pre ELSE NoSnapshot
  /\ Counted

FetchPage == \E page_id \in 0 .. (next_page_id - 1) :
               /\ FetchPageImpl(page_id)
               /\ pre' = IF page_id \in DOMAIN page_table_
                         THEN Snapshot ELSE NoSnapshot
               /\ Counted
UnpinPage == \E page_id \in PageIds, is_dirty \in BOOLEAN :
               UnpinPageImpl(page_id, is_dirty) /\ Remember(page_id)
FlushPage == \E page_id \in PageIds : FlushPageImpl(page_id) /\ Forget
NewPage == NewPageImpl /\ Forget
DeletePage == \E page_id \in PageIds : DeletePageImpl(page_id) /\ Forget
FlushAllPages == FlushAllPagesImpl /\ Forget

Next ==
  \/ FetchPage
  \/ UnpinPage
  \/ FlushPage
  \/ NewPage
  \/ DeletePage
  \/ FlushAllPages

Spec == Init /\ [][Next]_vars

\* a caller that unpins exactly once per handle it was given
UnpinHeld == \E page_id \in PageIds, is_dirty \in BOOLEAN :
               /\ handles[page_id] > 0
               /\ UnpinPageImpl(page_id, is_dirty)
               /\ Remember(page_id)

ProtoNext ==
  \/ FetchPage
  \/ UnpinHeld
  \/ FlushPage
  \/ NewPage
  \/ DeletePage
  \/ FlushAllPages

ProtoSpec == Init /\ [][ProtoNext]_vars

\* ------------------------------------------- the ClockReplacer on its own
\* any sequence of Unpin, Pin and Victim calls with in-range frame ids
ReplacerCall(op, frame_id, ok, iters) ==
  [op |-> op, frame_id |-> frame_id, ok |-> ok, iters |-> iters]

ReplacerInit ==
  /\ page_table_ = [k \in {} |-> 0]
  /\ free_list_ = [i \in 1 .. PoolSize |-> i - 1]
  /\ pages_ = [f \in Frames |->
                [page_id |-> INVALID_PAGE_ID, pin_count |-> 0, is_dirty |-> FALSE]]
  /\ replacer_ = NewClockReplacer(RingSize)
  /\ next_page_id = 0
  /\ fault = FALSE
  /\ ret = ReplacerCall("Init", NoFrame, TRUE, 0)
  /\ io = <<>>
  /\ handles = [p \in PageIds |-> 0]
  /\ pre = NoSnapshot
  /\ calls = 0
  /\ threads = Idle

ReplacerOnly ==
  UNCHANGED <<page_table_, free_list_, pages_, next_page_id, fault, io, handles,
              pre, calls, threads>>

ClockPin ==
  \E frame_id \in DOMAIN replacer_.rb :
    /\ replacer_' = Pin(replacer_, frame_id)
    /\ ret' = ReplacerCall("Pin", frame_id, TRUE, 0)
    /\ ReplacerOnly

ClockUnpin ==
  \E frame_id \in DOMAIN replacer_.rb :
    /\ replacer_' = Unpin(replacer_, frame_id)
    /\ ret' = ReplacerCall("Unpin", frame_id, TRUE, 0)
    /\ ReplacerOnly

ClockVictim ==
  LET v == Victim(replacer_) IN
  /\ replacer_' = v.replacer
  /\ ret' = ReplacerCall("Victim", v.frame_id, v.has_victim, v.iters)
  /\ ReplacerOnly

ReplacerNext ==
  \/ ClockPin
  \/ ClockUnpin
  \/ ClockVictim

ReplacerSpec == ReplacerInit /\ [][ReplacerNext]_vars

\* ------------------------------------------------- two concurrent callers
\* Neither FetchPageImpl nor UnpinPageImpl takes a lock, so the loads and
\* stores of two threads interleave. Each thread runs FetchPage(RacePage)
\* and then UnpinPage(RacePage, false) on a resident page; one action per
\* memory access. real_size_ is a size_t: a negative value n stands for
\* 2^64 + n, the value the unsigned counter wraps to.
RacePage == 0
RaceFrame == PoolSize - 1

\* the pool after NewPage -> 0; FetchPage(0); UnpinPage(0, false)
RacePages ==
  [f \in Frames |->
     IF f = RaceFrame
     THEN [page_id |-> RacePage, pin_count |-> 0, is_dirty |-> FALSE]
     ELSE [page_id |-> INVALID_PAGE_ID, pin_count |-> 0, is_dirty |-> FALSE]]

RaceReplacer ==
  [NewClockReplacer(PoolSize) EXCEPT
     !.rb[RaceFrame] = [is_in |-> TRUE, chances |-> 1], !.real_size = 1]

RaceInit ==
  /\ page_table_ = [k \in {RacePage} |-> RaceFrame]
  /\ free_list_ = [i \in 1 .. (PoolSize - 1) |-> i - 1]
  /\ pages_ = RacePages
  /\ replacer_ = RaceReplacer
  /\ next_page_id = 1
  /\ fault = FALSE
  /\ ret = Call("UnpinPage", RacePage, FALSE, RaceFrame, TRUE)
  /\ io = <<>>
  /\ handles = [p \in PageIds |-> IF p = RacePage THEN 1 ELSE 0]
  /\ pre = <<[k \in {RacePage} |-> RaceFrame],
             [i \in 1 .. (PoolSize - 1) |-> i - 1],
             RacePages,
             NewClockReplacer(PoolSize)>>
  /\ calls = 3
  /\ threads = Idle

At(t, pc) == threads[t].pc = pc

Goto(t, pc) == threads' = [threads EXCEPT ![t].pc = pc]

PoolOnly ==
  UNCHANGED <<page_table_, free_list_, next_page_id, fault, ret, io, handles,
              pre, calls>>

\* FetchPageImpl line 45-50: page table lookup, a hit
FetchFind(t) ==
  /\ At(t, "idle")
  /\ RacePage \in DOMAIN page_table_
  /\ threads' = [threads EXCEPT ![t].pc = "f_load",
                                ![t].frame_id = page_table_[RacePage]]
  /\ UNCHANGED <<pages_, replacer_>> /\ PoolOnly

\* line 75, target_page->pin_count_ += 1: the load
FetchLoadPin(t) ==
  /\ At(t, "f_load")
  /\ threads' = [threads EXCEPT ![t].pc = "f_store",
                   ![t].tmp = pages_[threads[t].frame_id].pin_count]
  /\ UNCHANGED <<pages_, replacer_>> /\ PoolOnly

\* line 75: the store
FetchStorePin(t) ==
  /\ At(t, "f_store")
  /\ pages_' = [pages_ EXCEPT ![threads[t].frame_id].pin_count =
                                 threads[t].tmp + 1]
  /\ Goto(t, "f_check")
  /\ UNCHANGED replacer_ /\ PoolOnly

\* line 76, ClockReplacer::Pin line 46: if (frame_stat.is_in)
FetchPinCheck(t) ==
  /\ At(t, "f_check")
  /\ Goto(t, IF replacer_.rb[threads[t].frame_id].is_in
             THEN "f_clear" ELSE "held")
  /\ UNCHANGED <<pages_, replacer_>> /\ PoolOnly

\* ClockReplacer::Pin line 47: frame_stat.is_in = false
FetchPinClear(t) ==
  /\ At(t, "f_clear")
  /\ replacer_' = [replacer_ EXCEPT !.rb[threads[t].frame_id].is_in = FALSE]
  /\ Goto(t, "f_size_load")
  /\ UNCHANGED pages_ /\ PoolOnly

\* ClockReplacer::Pin line 48, --real_size_: the load
FetchSizeLoad(t) ==
  /\ At(t, "f_size_load")
  /\ threads' = [threads EXCEPT ![t].pc = "f_size_store",
                                ![t].tmp = replacer_.real_size]
  /\ UNCHANGED <<pages_, replacer_>> /\ PoolOnly

\* line 48: the store; FetchPageImpl then returns the page
FetchSizeStore(t) ==
  /\ At(t, "f_size_store")
  /\ replacer_' = [replacer_ EXCEPT !.real_size = threads[t].tmp - 1]
  /\ Goto(t, "held")
  /\ UNCHANGED pages_ /\ PoolOnly

\* UnpinPageImpl line 81-85: page table lookup
UnpinFind(t) ==
  /\ At(t, "held")
  /\ RacePage \in DOMAIN page_table_
  /\ threads' = [threads EXCEPT ![t].pc = "u_check",
                                ![t].frame_id = page_table_[RacePage]]
  /\ UNCHANGED <<pages_, replacer_>> /\ PoolOnly

\* line 87, ClockReplacer::Unpin line 54: if (!frame_stat.is_in)
UnpinCheck(t) ==
  /\ At(t, "u_check")
  /\ Goto(t, IF ~replacer_.rb[threads[t].frame_id].is_in
             THEN "u_set" ELSE "u_load")
  /\ UNCHANGED <<pages_, replacer_>> /\ PoolOnly

\* ClockReplacer::Unpin line 55-56: is_in = true; chances = 1
UnpinSet(t) ==
  /\ At(t, "u_set")
  /\ replacer_' = [replacer_ EXCEPT !.rb[threads[t].frame_id] =
                                      [is_in |-> TRUE, chances |-> 1]]
  /\ Goto(t, "u_size_load")
  /\ UNCHANGED pages_ /\ PoolOnly

\* ClockReplacer::Unpin line 57, ++real_size_: the load
UnpinSizeLoad(t) ==
  /\ At(t, "u_size_load")
  /\ threads' = [threads EXCEPT ![t].pc = "u_size_store",
                                ![t].tmp = replacer_.real_size]
  /\ UNCHANGED <<pages_, replacer_>> /\ PoolOnly

\* line 57: the store
UnpinSizeStore(t) ==
  /\ At(t, "u_size_store")
  /\ replacer_' = [replacer_ EXCEPT !.real_size = threads[t].tmp + 1]
  /\ Goto(t, "u_load")
  /\ UNCHANGED pages_ /\ PoolOnly

\* UnpinPageImpl line 88, pages_[frame_id].pin_count_ -= 1: the load
UnpinLoadPin(t) ==
  /\ At(t, "u_load")
  /\ threads' = [threads EXCEPT ![t].pc = "u_store",
                   ![t].tmp = pages_[threads[t].frame_id].pin_count]
  /\ UNCHANGED <<pages_, replacer_>> /\ PoolOnly

\* line 88: the store; UnpinPageImpl then returns true
UnpinStorePin(t) ==
  /\ At(t, "u_store")
  /\ pages_' = [pages_ EXCEPT ![threads[t].frame_id].pin_count =
                                 threads[t].tmp - 1]
  /\ Goto(t, "done")
  /\ UNCHANGED replacer_ /\ PoolOnly

RaceNext ==
  \/ \E t \in Threads : FetchFind(t)
  \/ \E t \in Threads : FetchLoadPin(t)
  \/ \E t \in Threads : FetchStorePin(t)
  \/ \E t \in Threads : FetchPinCheck(t)
  \/ \E t \in Threads : FetchPinClear(t)
  \/ \E t \in Threads : FetchSizeLoad(t)
  \/ \E t \in Threads : FetchSizeStore(t)
  \/ \E t \in Threads : UnpinFind(t)
  \/ \E t \in Threads : UnpinCheck(t)
  \/ \E t \in Threads : UnpinSet(t)
  \/ \E t \in Threads : UnpinSizeLoad(t)
  \/ \E t \in Threads : UnpinSizeStore(t)
  \/ \E t \in Threads : UnpinLoadPin(t)
  \/ \E t \in Threads : UnpinStorePin(t)

RaceSpec == RaceInit /\ [][RaceNext]_vars

\* ================================================================ claims
Resident(f) ==
  /\ pages_[f].page_id \in DOMAIN page_table_
  /\ page_table_[pages_[f].page_id] = f

InReplacer(f) == replacer_.rb[f].is_in

\* the step just taken was a call of FetchPage or NewPage
AllocatingCall == ret'.op \in {"FetchPage", "NewPage"}

\* C1: while a handle on page p is outstanding, no FetchPage or NewPage call
\* takes p's frame: p stays in the page table, mapped to the same frame, and
\* that frame keeps holding p.
C1_NoEvictionWhilePinned ==
  [][\A p \in PageIds :
       (/\ AllocatingCall
        /\ handles[p] > 0
        /\ p \in DOMAIN page_table_
        /\ pages_[page_table_[p]].page_id = p)
       => (/\ p \in DOMAIN page_table_'
           /\ page_table_'[p] = page_table_[p]
           /\ pages_'[page_table_[p]].page_id = p)]_vars

\* C2: between operations, a frame in the replacer is resident with pin
\* count 0, and a frame with pin count > 0 is resident and not in the replacer.
C2_ReplacerHoldsUnpinnedResident ==
  ~fault =>
    \A f \in Frames :
      /\ InReplacer(f) => (Resident(f) /\ pages_[f].pin_count = 0)
      /\ pages_[f].pin_count > 0 => (Resident(f) /\ ~InReplacer(f))

\* C3: between operations, the replacer's Size() is the number of resident
\* frames whose pin count is 0.
C3_SizeCountsUnpinnedResident ==
  ~fault =>
    Size(replacer_) =
      Cardinality({f \in Frames : Resident(f) /\ pages_[f].pin_count = 0})

\* C4: after any sequence of calls, every frame id occurs exactly once in the
\* free list or exactly once as a page table value, never in both and never
\* in neither, so |free list| + |page table| = pool_size.
FreeListCount(f) ==
  Cardinality({i \in 1 .. Len(free_list_) : free_list_[i] = f})

PageTableCount(f) ==
  Cardinality({p \in DOMAIN page_table_ : page_table_[p] = f})

C5_PinCountNonNegative ==
  \A f \in Frames : pages_[f].pin_count >= 0

\* C6: when FetchPage(p) returns a handle, the returned frame holds p, the
\* page table maps p to it, its pin count is >= 1 and it is not in the
\* replacer.
C6_FetchReturnsPinnedResident ==
  (ret.op = "FetchPage" /\ ret.ok) =>
    /\ pages_[ret.frame_id].page_id = ret.page_id
    /\ ret.page_id \in DOMAIN page_table_
    /\ page_table_[ret.page_id] = ret.frame_id
    /\ pages_[ret.frame_id].pin_count >= 1
    /\ ~InReplacer(ret.frame_id)

\* C7: when NewPage returns a handle, the returned frame has pin count >= 1
\* and is not in the replacer.
C7_NewPageReturnsPinned ==
  (ret.op = "NewPage" /\ ret.ok) =>
    /\ pages_[ret.frame_id].pin_count >= 1
    /\ ~InReplacer(ret.frame_id)

\* C8: FetchPage(p) of a non-resident page with a non-empty free list does
\* not fault: it pops the tail frame f of the free list, resets f to p, maps
\* p -> f, reads p from disk and returns f with pin count 1.
C8_FetchMissTakesFreeFrame ==
  [][(/\ ret'.op = "FetchPage"
      /\ ~fault
      /\ ret'.page_id \notin DOMAIN page_table_
      /\ Len(free_list_) # 0)
     => (/\ ~fault'
         /\ ret'.ok
         /\ ret'.frame_id = Back(free_list_)
         /\ free_list_' = PopBack(free_list_)
         /\ pages_'[Back(free_list_)] =
              [page_id |-> ret'.page_id, pin_count |-> 1, is_dirty |-> FALSE]
         /\ page_table_' = Emplace(page_table_, ret'.page_id, Back(free_list_))
         /\ io' = << <<"ReadPage", ret'.page_id>> >>)]_vars

\* C9: UnpinPage(p, TRUE) that returns true leaves p's frame dirty; the flag
\* stays set until a flush or a reset of the frame; and when FetchPage or
\* NewPage takes a dirty frame as victim, exactly one WritePage of the old
\* page is issued, before the frame is reused.
WritesOf(disk_calls, page_id) ==
  {i \in 1 .. Len(disk_calls) : disk_calls[i] = <<"WritePage", page_id>>}

C9_DirtyWriteBack ==
  [][/\ (ret'.op = "UnpinPage" /\ ret'.ok /\ ret'.is_dirty)
          => pages_'[ret'.frame_id].is_dirty
     /\ \A f \in Frames :
          (/\ pages_[f].is_dirty
           /\ pages_'[f].page_id = pages_[f].page_id
           /\ ret'.op \notin {"FlushPage", "FlushAllPages"})
          => pages_'[f].is_dirty
     /\ \A f \in Frames :
          (/\ AllocatingCall /\ ret'.ok /\ ret'.frame_id = f
           /\ pages_[f].is_dirty
           /\ pages_'[f].page_id # pages_[f].page_id)
          => (/\ Cardinality(WritesOf(io', pages_[f].page_id)) = 1
              /\ \A i \in 1 .. Len(io') :
                   io'[i][1] = "ReadPage" =>
                     \E j \in WritesOf(io', pages_[f].page_id) : j < i)]_vars

\* C10: with the free list empty and the replacer empty, FetchPage of a
\* non-resident page and NewPage return none, issue no disk manager call and
\* leave page table, free list, frames, replacer and allocator as they were.
Exhausted == Len(free_list_) = 0 /\ Size(replacer_) = 0

C10_ExhaustionLeavesNoTrace ==
  [][(/\ ~fault
      /\ Exhausted
      /\ \/ ret'.op = "NewPage"
         \/ ret'.op = "FetchPage" /\ ret'.page_id \notin DOMAIN page_table_)
     => (/\ ~ret'.ok
         /\ ret'.frame_id = NoFrame
         /\ io' = <<>>
         /\ UNCHANGED <<page_table_, free_list_, pages_, replacer_,
                        next_page_id, fault, handles>>)]_vars

\* FetchPage of a non-resident page has just failed on an exhausted pool
C10_Witness ==
  /\ ~fault
  /\ Exhausted
  /\ ret.op = "FetchPage" /\ ~ret.ok
  /\ ret.page_id \notin DOMAIN page_table_

\* NewPage has just failed on an exhausted pool
C10_WitnessNewPage ==
  /\ ~fault
  /\ Exhausted
  /\ ret.op = "NewPage" /\ ~ret.ok

\* C11: DeletePage(p) on a resident page returns false exactly when p's frame
\* has pin count > 0, and then changes nothing; for a resident page with no
\* outstanding handle it returns true.
C11_DeleteRefusedOnlyWhilePinned ==
  [][(/\ ret'.op = "DeletePage"
      /\ ~fault
      /\ ret'.page_id \in DOMAIN page_table_)
     => LET p == ret'.page_id
            f == page_table_[p]
        IN /\ ~ret'.ok <=> pages_[f].pin_count > 0
           /\ ~ret'.ok => UNCHANGED <<page_table_, free_list_, pages_,
                                      replacer_>>
           /\ handles[p] = 0 => ret'.ok]_vars

\* C12: no frame in the free list is in the replacer; DeletePage of a page
\* whose frame was in the replacer takes the frame out of the replacer.
C12_FreeFramesNotInReplacer ==
  ~fault => \A i \in 1 .. Len(free_list_) : ~InReplacer(free_list_[i])

\* C13: every call DeletePage(p) issues DeallocatePage(p) to the disk
\* manager, whether or not p is resident.
C13_DeleteDeallocates ==
  (ret.op = "DeletePage") =>
    \E i \in 1 .. Len(io) : io[i] = <<"DeallocatePage", ret.page_id>>

\* C15: FlushPage(p) on a resident page, at any pin count, returns true,
\* issues exactly one WritePage(p), leaves the dirty flag clear and changes
\* nothing else; on a non-resident page it returns false and changes nothing.
C15_FlushOnlyWritesAndCleans ==
  [][(ret'.op = "FlushPage" /\ ~fault)
     => LET p == ret'.page_id IN
        IF p \in DOMAIN page_table_
        THEN /\ ret'.ok
             /\ io' = << <<"WritePage", p>> >>
             /\ ~pages_'[page_table_[p]].is_dirty
             /\ pages_' = [pages_ EXCEPT ![page_table_[p]].is_dirty = FALSE]
             /\ UNCHANGED <<page_table_, free_list_, replacer_, next_page_id,
                            fault, handles>>
        ELSE /\ ~ret'.ok
             /\ io' = <<>>
             /\ UNCHANGED <<page_table_, free_list_, pages_, replacer_,
                            next_page_id, fault, handles>>]_vars

\* a pinned resident page has just been flushed
C15_Witness ==
  /\ ret.op = "FlushPage" /\ ret.ok
  /\ io = << <<"WritePage", ret.page_id>> >>
  /\ pages_[ret.frame_id].pin_count > 0
  /\ ~pages_[ret.frame_id].is_dirty

\* C20: every page table entry p -> f points at a frame whose page id is p,
\* and a frame that FetchPage or NewPage obtains from Victim is resident:
\* its page id q is valid, the page table maps q to it, and erasing q
\* removes exactly that entry.
PageTableMatchesFrames ==
  ~fault => \A p \in DOMAIN page_table_ : pages_[page_table_[p]].page_id = p

VictimIsLiveMapping ==
  (/\ AllocatingCall /\ ret'.ok
   /\ ~fault
   /\ Len(free_list_) = 0
   /\ ret'.page_id \notin DOMAIN page_table_)
  => LET f == ret'.frame_id
         q == pages_[f].page_id
     IN /\ q # INVALID_PAGE_ID
        /\ q \in DOMAIN page_table_
        /\ page_table_[q] = f
        /\ DOMAIN page_table_' = ((DOMAIN page_table_) \ {q}) \cup {ret'.page_id}
        /\ \A p \in (DOMAIN page_table_) \ {q} : page_table_'[p] = page_table_[p]

Dist(r, f) == (f - r.clock_hand + r.num_pages) % r.num_pages

InSlots(r) == {f \in DOMAIN r.rb : r.rb[f].is_in}

ZeroSlots(r) == {f \in InSlots(r) : r.rb[f].chances = 0}

Nearest(r, slots) ==
  CHOOSE f \in slots :
    \A g \in slots : Dist(r, f) <= Dist(r, g)

SecondChanceVictim(r) ==
  IF ZeroSlots(r) # {} THEN Nearest(r, ZeroSlots(r)) ELSE Nearest(r, InSlots(r))

Passed(r, f) ==
  ZeroSlots(r) # {} =>
    Dist(r, f) < Dist(r, SecondChanceVictim(r))

C17_VictimIsSecondChance ==
  [][(ret'.op = "Victim")
     => IF Size(replacer_) = 0
        THEN ~ret'.ok /\ ret'.frame_id = NoFrame /\ replacer_' = replacer_
        ELSE LET v == SecondChanceVictim(replacer_) IN
             /\ ret'.ok
             /\ ret'.frame_id = v
             /\ replacer_'.clock_hand = v
             /\ Size(replacer_') = Size(replacer_) - 1
             /\ replacer_'.num_pages = replacer_.num_pages
             /\ \A f \in DOMAIN replacer_.rb :
                  replacer_'.rb[f] =
                    IF f = v THEN [is_in |-> FALSE, chances |-> 0]
                    ELSE IF f \in InSlots(replacer_)
                            /\ replacer_.rb[f].chances > 0
                            /\ Passed(replacer_, f)
                    THEN [replacer_.rb[f] EXCEPT !.chances = @ - 1]
                    ELSE replacer_.rb[f]]_vars

\* Victim has just returned a slot after a full sweep that used up the
\* chances, and another slot is still in the replacer
C17_Witness ==
  /\ ret.op = "Victim" /\ ret.ok
  /\ ret.iters > replacer_.num_pages
  /\ replacer_.clock_hand = ret.frame_id
  /\ \E f \in DOMAIN replacer_.rb :
       replacer_.rb[f] = [is_in |-> TRUE, chances |-> 0]

\* C18: with Size() > 0, Victim returns a slot after at most 2 * pool_size
\* slot examinations.
C18_VictimTerminates ==
  [][(ret'.op = "Victim" /\ Size(replacer_) > 0)
     => (ret'.ok /\ ret'.iters >= 1
         /\ ret'.iters <= 2 * replacer_.num_pages)]_vars

\* Victim has just needed all 2 * pool_size examinations
C18_Witness ==
  ret.op = "Victim" /\ ret.ok /\ ret.iters = 2 * replacer_.num_pages

\* C19: Size() is the number of slots with is_in = true; Unpin of a slot in
\* the replacer and Pin of a slot not in it change nothing; Pin and Unpin
\* never move the hand.
SizeCountsSlots ==
  /\ Size(replacer_) = Cardinality(InSlots(replacer_))
  /\ Size(replacer_) >= 0
  /\ Size(replacer_) <= replacer_.num_pages

PinUnpinIdempotent ==
  /\ (ret'.op = "Unpin" /\ replacer_.rb[ret'.frame_id].is_in)
       => replacer_' = replacer_
  /\ (ret'.op = "Pin" /\ ~replacer_.rb[ret'.frame_id].is_in)
       => replacer_' = replacer_
  /\ ret'.op \in {"Pin", "Unpin"}
       => replacer_'.clock_hand = replacer_.clock_hand

C19_SizeAndIdempotence ==
  [](SizeCountsSlots) /\ [][PinUnpinIdempotent]_vars

\* Unpin has just been called on a slot that is in the replacer with its
\* chance used up, away from the origin of the ring
C19_Witness ==
  /\ ret.op = "Unpin"
  /\ replacer_.rb[ret.frame_id] = [is_in |-> TRUE, chances |-> 0]
  /\ replacer_.clock_hand # 0

\* C14: for a resident page p whose frame has pin count 0, FetchPage(p)
\* directly followed by UnpinPage(p, false) puts the pin count back to 0 and
\* leaves page table, free list, every frame's page id and dirty flag and the
\* whole replacer (membership, chances, hand, size) as before the pair.
RoundTripDone ==
  /\ ret.op = "UnpinPage" /\ ret.ok /\ ~ret.is_dirty
  /\ pre # NoSnapshot
  /\ pre[3][ret.frame_id].pin_count = 0

C14_RoundTripRestoresAll ==
  RoundTripDone =>
    /\ pages_[ret.frame_id].pin_count = 0
    /\ <<page_table_, free_list_, pages_, replacer_>> = pre

\* C14 as the code has it: the pair puts the pin count back to 0 and leaves
\* page table, free list, every frame, the hand and every other slot as
\* before; p's own slot ends in the replacer with chance 1, and Size() is as
\* before if the slot was in the replacer and one larger if it was not.
C14_RoundTripRefreshesChance ==
  RoundTripDone =>
    LET f == ret.frame_id
        before == pre[4]
    IN /\ pages_[f].pin_count = 0
       /\ <<page_table_, free_list_, pages_>> = <<pre[1], pre[2], pre[3]>>
       /\ replacer_.clock_hand = before.clock_hand
       /\ replacer_.num_pages = before.num_pages
       /\ \A g \in Frames \ {f} : replacer_.rb[g] = before.rb[g]
       /\ replacer_.rb[f] = [is_in |-> TRUE, chances |-> 1]
       /\ Size(replacer_) =
            Size(before) + (IF before.rb[f].is_in THEN 0 ELSE 1)

\* the pair has just been run on a page whose slot was in the replacer with
\* its chance used up
C14_Witness ==
  /\ RoundTripDone
  /\ pre[4].rb[ret.frame_id] = [is_in |-> TRUE, chances |-> 0]

\* C16: two threads that each run FetchPage(p) and then UnpinPage(p) on a
\* resident page see pin count >= 1 while they hold the page, and when both
\* are through the pool and the replacer are what either serial order
\* leaves: as they started.
C16_ConcurrentCallsSerialize ==
  /\ \A t \in Threads :
       At(t, "held") => pages_[threads[t].frame_id].pin_count >= 1
  /\ (\A t \in Threads : At(t, "done"))
       => /\ pages_ = RacePages
          /\ replacer_ = RaceReplacer

====
